---- MODULE Spec2Model ----
(***************************************************************************)
(* Model of bravesearch-mcp: the RateLimiter (src/tools/bravesearch/mod.rs *)
(* 257-308) and the three tool operations of BraveSearchRouter that run    *)
(* behind it (mod.rs 488-1020).                                            *)
(*                                                                         *)
(* Time.  The limiter reads the clock only through                         *)
(* now.duration_since(last_reset), so the clock is kept as that difference,*)
(* `elapsed`, counted in ticks of 1/TicksPerSecond second and saturating   *)
(* just above one second (every larger value takes the same branch).       *)
(*                                                                         *)
(* Text.  A text is a sequence of pieces; a piece is a literal of the      *)
(* source ("Error: ") or one character of a caller's string.  Formatting   *)
(* is concatenation (\o), as format!/join do.                              *)
(***************************************************************************)
EXTENDS Integers, Sequences, FiniteSets, TLC

\* ------------------------------------------------------------------ bounds
TicksPerSecond == 2
MaxCalls == 3

\* ------------------------------------------------------- program constants
RATE_LIMIT_PER_SECOND == 1
RATE_LIMIT_PER_MONTH == 15000

Tasks == {1, 2}
NoTask == 0

VARIABLES
  request_count,  \* RequestCount {second, month}; last_reset is `elapsed`
  elapsed,        \* Instant::now().duration_since(last_reset), in ticks
  lock,           \* holder of the tokio Mutex around RequestCount, or NoTask
  result,         \* what the last direct call (check_rate_limit, from_str) returned
  pc,             \* per task: where its tool invocation stands
  tool,           \* per task: the tool invoked
  arg,            \* per task: the arguments the tool was invoked with
  stage,          \* per task: the upstream call being made
  req,            \* per task: the parameters of the running perform_* / get_* call
  held,           \* per task: location_ids and pois_data of perform_local_search
  wire,           \* per task: the last request it sent upstream
  out,            \* per task: the text the tool returned
  log,            \* history, per task: the events of the invocation, in order
  calls,          \* history: tool invocations started
  admitted,       \* history: gate checks that returned Ok since construction
  in_window,      \* history: gate checks that returned Ok since the last reset
  sent,           \* history: upstream requests sent
  failed,         \* history: some invocation has ended with a failure
  since_admit,    \* history: ticks since the last direct call returned Ok
  server          \* sse_server::serve: its task, its token, what main awaits

limiter == <<request_count, elapsed, lock>>
taskvars == <<pc, tool, arg, stage, req, held, wire, out, log>>
vars == <<request_count, elapsed, lock, result, pc, tool, arg, stage, req, held,
          wire, out, log, calls, admitted, in_window, sent, failed,
          since_admit, server>>

\* Duration::from_secs(1), in ticks
OneSecond == TicksPerSecond
ElapsedCap == OneSecond + 1

\* RateLimiter::new
NewRequestCount == [second |-> 0, month |-> 0]

\* mutant: the window also reopens when exactly one second has passed
WindowReset_AtOneSecond(rc, el) ==
  IF el >= OneSecond
    THEN <<[rc EXCEPT !.second = 0], 0>>
    ELSE <<rc, el>>

\* lines 294-297: the window reset; returns <<RequestCount, elapsed>>
WindowReset(rc, el) ==
  IF el > OneSecond
    THEN <<[rc EXCEPT !.second = 0], 0>>
    ELSE <<rc, el>>

\* mutant: the limits tested with > for >=
LimitExceeded_OffByOne(rc) ==
  rc.second > RATE_LIMIT_PER_SECOND \/ rc.month > RATE_LIMIT_PER_MONTH

\* mutant: the monthly limit is not tested
LimitExceeded_SecondOnly(rc) ==
  rc.second >= RATE_LIMIT_PER_SECOND

\* line 299: the limit test
LimitExceeded(rc) ==
  rc.second >= RATE_LIMIT_PER_SECOND \/ rc.month >= RATE_LIMIT_PER_MONTH

\* mutant: the monthly counter is not counted
Increment_SecondOnly(rc) ==
  [rc EXCEPT !.second = @ + 1]

\* lines 303-304
Increment(rc) ==
  [rc EXCEPT !.second = @ + 1, !.month = @ + 1]

\* ----------------------------------------------------------------- values
None == [some |-> FALSE]
Some(x) == [some |-> TRUE, v |-> x]
Ok(x) == [ok |-> TRUE, v |-> x]
Err(e) == [ok |-> FALSE, e |-> e]

\* line 300: anyhow!("Rate limit exceeded")
RateLimitError == <<"Rate limit exceeded">>

\* mutant: a rejected call restarts the window
check_rate_limit_RestartOnReject(rc, el) ==
  LET w == WindowReset(rc, el) IN
    IF LimitExceeded(w[1])
      THEN <<w[1], 0, Err(RateLimitError)>>
      ELSE <<Increment(w[1]), w[2], Ok(<<>>)>>

\* check_rate_limit run without contention: <<RequestCount, elapsed, Result>>
check_rate_limit(rc, el) ==
  LET w == WindowReset(rc, el) IN
    IF LimitExceeded(w[1])
      THEN <<w[1], w[2], Err(RateLimitError)>>
      ELSE <<Increment(w[1]), w[2], Ok(<<>>)>>

\* Option::unwrap_or
unwrap_or(o, d) == IF o.some THEN o.v ELSE d

\* mutant: no clamping
min_Unclamped(a, b) == a

\* usize::min
min(a, b) == IF a <= b THEN a ELSE b

\* ---------------------------------------------------------------- strings
\* A caller's string is a sequence of one-character strings.
Uppers == <<"A","B","C","D","E","F","G","H","I","J","K","L","M",
            "N","O","P","Q","R","S","T","U","V","W","X","Y","Z">>
Lowers == <<"a","b","c","d","e","f","g","h","i","j","k","l","m",
            "n","o","p","q","r","s","t","u","v","w","x","y","z">>

\* Characters outside ASCII are written by their code point.  Three of them
\* change case into an ASCII letter: LATIN SMALL LETTER LONG S and LATIN SMALL
\* LETTER DOTLESS I upper-case to S and I, KELVIN SIGN lower-cases to k.
UpperChar(c) ==
  IF \E i \in 1..Len(Lowers) : Lowers[i] = c
    THEN Uppers[CHOOSE i \in 1..Len(Lowers) : Lowers[i] = c]
  ELSE IF c = "U+017F" THEN "S"
  ELSE IF c = "U+0131" THEN "I"
  ELSE c

LowerChar(c) ==
  IF \E i \in 1..Len(Uppers) : Uppers[i] = c
    THEN Lowers[CHOOSE i \in 1..Len(Uppers) : Uppers[i] = c]
  ELSE IF c = "U+212A" THEN "k"
  ELSE c

\* str::to_uppercase / str::to_lowercase
to_uppercase(s) == [i \in 1..Len(s) |-> UpperChar(s[i])]
to_lowercase(s) == [i \in 1..Len(s) |-> LowerChar(s[i])]

\* enum CountryCode: a variant is its name (what {:?} prints)
CountryCodes ==
  { <<"A","L","L">>, <<"A","R">>, <<"A","U">>, <<"A","T">>, <<"B","E">>, <<"B","R">>,
    <<"C","A">>, <<"C","L">>, <<"D","K">>, <<"F","I">>, <<"F","R">>, <<"D","E">>,
    <<"H","K">>, <<"I","N">>, <<"I","D">>, <<"I","T">>, <<"J","P">>, <<"K","R">>,
    <<"M","Y">>, <<"M","X">>, <<"N","L">>, <<"N","Z">>, <<"N","O">>, <<"C","N">>,
    <<"P","L">>, <<"P","T">>, <<"P","H">>, <<"R","U">>, <<"S","A">>, <<"Z","A">>,
    <<"E","S">>, <<"S","E">>, <<"C","H">>, <<"T","W">>, <<"T","R">>, <<"G","B">>,
    <<"U","S">> }

\* #[default] US
CountryCode_default == <<"U","S">>

\* mutant: the error carries the upper-cased string that was matched
CountryCode_from_str_Upper(s) ==
  LET up == to_uppercase(s) IN
    IF up \in CountryCodes
      THEN Ok(up)
      ELSE Err(<<"Unknown country code: ">> \o up)

\* impl FromStr for CountryCode: the match arms are "X" => Ok(CountryCode::X)
CountryCode_from_str(s) ==
  LET up == to_uppercase(s) IN
    IF up \in CountryCodes
      THEN Ok(up)
      ELSE Err(<<"Unknown country code: ">> \o s)

\* mutant: Display prints the variant's name as it is
CountryCode_to_string_Debug(c) == c

\* impl Display for CountryCode
CountryCode_to_string(c) == to_lowercase(c)

\* the two-letter arms of LanguageCode::from_str, "xx" => Ok(LanguageCode::XX)
TwoLetterLanguages ==
  { <<"a","r">>, <<"e","u">>, <<"b","n">>, <<"b","g">>, <<"c","a">>, <<"h","r">>,
    <<"c","s">>, <<"d","a">>, <<"n","l">>, <<"e","n">>, <<"e","t">>, <<"f","i">>,
    <<"f","r">>, <<"g","l">>, <<"d","e">>, <<"g","u">>, <<"h","e">>, <<"h","i">>,
    <<"h","u">>, <<"i","s">>, <<"i","t">>, <<"j","a">>, <<"k","n">>, <<"k","o">>,
    <<"l","v">>, <<"l","t">>, <<"m","s">>, <<"m","l">>, <<"m","r">>, <<"n","b">>,
    <<"p","l">>, <<"p","t">>, <<"p","a">>, <<"r","o">>, <<"r","u">>, <<"s","r">>,
    <<"s","k">>, <<"s","l">>, <<"e","s">>, <<"s","v">>, <<"t","a">>, <<"t","e">>,
    <<"t","h">>, <<"t","r">>, <<"u","k">>, <<"v","i">> }

\* the hyphen and underscore arms: <<matched string, variant>>
LocaleArms ==
  { <<<<"z","h","-","h","a","n","s">>, <<"Z","h","H","a","n","s">>>>,
    <<<<"z","h","_","h","a","n","s">>, <<"Z","h","H","a","n","s">>>>,
    <<<<"z","h","-","h","a","n","t">>, <<"Z","h","H","a","n","t">>>>,
    <<<<"z","h","_","h","a","n","t">>, <<"Z","h","H","a","n","t">>>>,
    <<<<"e","n","-","g","b">>, <<"E","n","G","b">>>>,
    <<<<"e","n","_","g","b">>, <<"E","n","G","b">>>>,
    <<<<"p","t","-","b","r">>, <<"P","t","B","r">>>>,
    <<<<"p","t","_","b","r">>, <<"P","t","B","r">>>> }

\* every arm of LanguageCode::from_str
LanguageArms ==
  {<<l, to_uppercase(l)>> : l \in TwoLetterLanguages} \cup LocaleArms

\* enum LanguageCode
LanguageCodes == {a[2] : a \in LanguageArms}

\* #[default] EN
LanguageCode_default == <<"E","N">>

\* impl FromStr for LanguageCode
LanguageCode_from_str(s) ==
  LET lo == to_lowercase(s) IN
    IF \E a \in LanguageArms : a[1] = lo
      THEN Ok((CHOOSE a \in LanguageArms : a[1] = lo)[2])
      ELSE Err(<<"Unknown language code: ">> \o s)

\* mutant: Display without the hyphenated arms
LanguageCode_to_string_Plain(l) == to_lowercase(l)

\* impl Display for LanguageCode
LanguageCode_to_string(l) ==
  CASE l = <<"Z","h","H","a","n","s">> -> <<"z","h","-","h","a","n","s">>
    [] l = <<"Z","h","H","a","n","t">> -> <<"z","h","-","h","a","n","t">>
    [] l = <<"E","n","G","b">> -> <<"e","n","-","g","b">>
    [] l = <<"P","t","B","r">> -> <<"p","t","-","b","r">>
    [] OTHER -> to_lowercase(l)

\* ------------------------------------------------------------------- text
\* Vec<String>::join(sep)
RECURSIVE Join(_, _)
Join(blocks, sep) ==
  IF Len(blocks) = 0 THEN <<>>
  ELSE IF Len(blocks) = 1 THEN blocks[1]
  ELSE blocks[1] \o sep \o Join(Tail(blocks), sep)

\* iter().filter(|part| !part.is_empty())
RECURSIVE NonEmpty(_)
NonEmpty(parts) ==
  IF Len(parts) = 0 THEN <<>>
  ELSE IF Head(parts) = <<>> THEN NonEmpty(Tail(parts))
  ELSE <<Head(parts)>> \o NonEmpty(Tail(parts))

\* mutant: the description line is left out when the description is empty
FormatWebResult_Compact(r) ==
  <<"Title: ">> \o r.title
    \o (IF r.description = <<>> THEN <<>> ELSE <<"\nDescription: ">> \o r.description)
    \o <<"\nURL: ">> \o r.url

\* perform_web_search, lines 634-646
FormatWebResult(r) ==
  <<"Title: ">> \o r.title \o <<"\nDescription: ">> \o r.description
    \o <<"\nURL: ">> \o r.url

FormatWeb(results) ==
  Join([i \in 1..Len(results) |-> FormatWebResult(results[i])], <<"\n\n">>)

\* mutant: the thumbnail line is printed whenever a thumbnail is present
FormatNewsResult_Thumb(r) ==
  LET breaking == IF unwrap_or(r.breaking, FALSE) THEN <<"[BREAKING] ">> ELSE <<>>
      age == unwrap_or(r.age, <<"Unknown">>)
      thumbnail ==
        IF r.thumbnail.some
          THEN <<"\nThumbnail: ">> \o unwrap_or(r.thumbnail.v.src, <<>>)
          ELSE <<>>
  IN breaking \o <<"Title: ">> \o r.title \o <<"\nDescription: ">> \o r.description
       \o <<"\nURL: ">> \o r.url \o <<"\nAge: ">> \o age \o thumbnail

\* perform_news_search, lines 574-595
FormatNewsResult(r) ==
  LET breaking == IF unwrap_or(r.breaking, FALSE) THEN <<"[BREAKING] ">> ELSE <<>>
      age == unwrap_or(r.age, <<"Unknown">>)
      thumbnail ==
        IF r.thumbnail.some
          THEN IF r.thumbnail.v.src.some
                 THEN <<"\nThumbnail: ">> \o r.thumbnail.v.src.v
                 ELSE <<>>
          ELSE <<>>
  IN breaking \o <<"Title: ">> \o r.title \o <<"\nDescription: ">> \o r.description
       \o <<"\nURL: ">> \o r.url \o <<"\nAge: ">> \o age \o thumbnail

\* perform_news_search, lines 567-599
FormatNews(results) ==
  IF Len(results) = 0
    THEN <<"No news results found (empty results array)">>
    ELSE Join([i \in 1..Len(results) |-> FormatNewsResult(results[i])], <<"\n\n">>)

\* mutant: the address line is printed whenever a postal address is present
FormatLocationRef_EmptyAddress(loc) ==
  LET name == IF loc.title.some THEN <<<<"Name: ">> \o loc.title.v>> ELSE <<>>
      address_str ==
        IF loc.postal_address.some
          THEN LET a == loc.postal_address.v IN
                 Join(NonEmpty(<<unwrap_or(a.street_address, <<>>),
                                 unwrap_or(a.address_locality, <<>>),
                                 unwrap_or(a.address_region, <<>>),
                                 unwrap_or(a.postal_code, <<>>),
                                 unwrap_or(a.country, <<>>)>>), <<", ">>)
          ELSE <<>>
      address == IF loc.postal_address.some
                   THEN <<<<"Address: ">> \o address_str>> ELSE <<>>
      coordinates ==
        IF loc.coordinates.some /\ Len(loc.coordinates.v) >= 2
          THEN <<<<"Coordinates: ">> \o loc.coordinates.v[1] \o <<", ">>
                   \o loc.coordinates.v[2]>>
          ELSE <<>>
      id == <<<<"ID: ">> \o loc.id>>
  IN Join(name \o address \o coordinates \o id, <<"\n">>)

\* perform_local_search, lines 707-745: the block of one location reference
FormatLocationRef(loc) ==
  LET name == IF loc.title.some THEN <<<<"Name: ">> \o loc.title.v>> ELSE <<>>
      address_str ==
        IF loc.postal_address.some
          THEN LET a == loc.postal_address.v IN
                 Join(NonEmpty(<<unwrap_or(a.street_address, <<>>),
                                 unwrap_or(a.address_locality, <<>>),
                                 unwrap_or(a.address_region, <<>>),
                                 unwrap_or(a.postal_code, <<>>),
                                 unwrap_or(a.country, <<>>)>>), <<", ">>)
          ELSE <<>>
      address == IF address_str # <<>> THEN <<<<"Address: ">> \o address_str>> ELSE <<>>
      coordinates ==
        IF loc.coordinates.some /\ Len(loc.coordinates.v) >= 2
          THEN <<<<"Coordinates: ">> \o loc.coordinates.v[1] \o <<", ">>
                   \o loc.coordinates.v[2]>>
          ELSE <<>>
      id == <<<<"ID: ">> \o loc.id>>
  IN Join(name \o address \o coordinates \o id, <<"\n">>)

\* mutant: an entry with nothing but its id gives no block
LocationBlocks_Described(location_refs) ==
  LET described == SelectSeq(location_refs,
                             LAMBDA loc : FormatLocationRef(loc) # <<"ID: ">> \o loc.id)
  IN [i \in 1..Len(described) |-> FormatLocationRef(described[i])]

\* perform_local_search, lines 704-746: one block per location reference
LocationBlocks(location_refs) ==
  [i \in 1..Len(location_refs) |-> FormatLocationRef(location_refs[i])]

\* format_local_results, lines 830-870: the block of one POI
FormatPoi(poi, descriptions) ==
  LET address == Join(NonEmpty(<<unwrap_or(poi.address.street_address, <<>>),
                                 unwrap_or(poi.address.address_locality, <<>>),
                                 unwrap_or(poi.address.address_region, <<>>),
                                 unwrap_or(poi.address.postal_code, <<>>)>>), <<", ">>)
      address_display == IF address = <<>> THEN <<"N/A">> ELSE address
      rating == IF poi.rating.some /\ poi.rating.v.rating_value.some
                  THEN poi.rating.v.rating_value.v ELSE <<"N/A">>
      rating_count == IF poi.rating.some /\ poi.rating.v.rating_count.some
                        THEN poi.rating.v.rating_count.v ELSE <<"0">>
      hours == Join(unwrap_or(poi.opening_hours, <<>>), <<", ">>)
      hours_display == IF hours = <<>> THEN <<"N/A">> ELSE hours
      description == IF poi.id \in DOMAIN descriptions
                       THEN descriptions[poi.id]
                       ELSE <<"No description available">>
  IN <<"Name: ">> \o poi.name \o <<"\nAddress: ">> \o address_display
       \o <<"\nPhone: ">> \o unwrap_or(poi.phone, <<"N/A">>)
       \o <<"\nRating: ">> \o rating \o <<" (">> \o rating_count \o <<" reviews)">>
       \o <<"\nPrice Range: ">> \o unwrap_or(poi.price_range, <<"N/A">>)
       \o <<"\nHours: ">> \o hours_display
       \o <<"\nDescription: ">> \o description

\* format_local_results, lines 825-879
format_local_results(pois, descriptions) ==
  LET results == Join([i \in 1..Len(pois) |-> FormatPoi(pois[i], descriptions)],
                      <<"\n---\n">>)
  IN IF results = <<>> THEN <<"No local results found">> ELSE results

\* mutant: the error is returned without its prefix
ToolText_Raw(res) == IF res.ok THEN res.v ELSE res.e

\* the tool methods' match: Ok(result) => result, Err(e) => format!("Error: {}", e)
ToolText(res) == IF res.ok THEN res.v ELSE <<"Error: ">> \o res.e

\* --------------------------------------------------------------- upstream
\* What one upstream exchange can come to (the environment's choice):
\*   send_error   .send().await? fails
\*   status       a non-2xx status; body_ok: response.text().await? succeeds
\*   body_error   2xx, reading the body fails
\*   bad_json     2xx, the body does not deserialize into the expected type
\*   json         2xx, the body deserializes into `data`
SendError == [kind |-> "send_error"]
Status(c, r, b) == [kind |-> "status", code |-> c, reason |-> r, body_ok |-> b]
BodyError == [kind |-> "body_error"]
BadJson == [kind |-> "bad_json"]
Json(d) == [kind |-> "json", data |-> d]

\* Display of the reqwest / serde_json errors (text of the libraries)
SendErrorMsg == <<"error sending request">>
BodyErrorMsg == <<"error reading response body">>
DecodeErrorMsg == <<"error decoding response body">>
SerdeErrorMsg == <<"expected value at line 1 column 1">>

\* the body an error response carries
ErrorBody == <<"{\"error\":\"...\"}">>

\* anyhow!("Brave API error: {} {}\n{}", status, reason, body)
ApiErrorMsg(o) ==
  <<"Brave API error: ", o.code, " ">> \o o.reason \o <<"\n">> \o ErrorBody

\* lines 535-554, 614-630, 665-681, 770-786, 803-819: send, then the status test.
\* Some(error) when the exchange fails before the body of a 2xx is read.
HttpFailure(o) ==
  CASE o.kind = "send_error" -> Some(SendErrorMsg)
    [] o.kind = "status" -> IF o.body_ok THEN Some(ApiErrorMsg(o)) ELSE Some(BodyErrorMsg)
    [] o.kind = "body_error" -> Some(BodyErrorMsg)
    [] OTHER -> None

\* struct BraveSearchResponse {web, locations, results}
Body(w, l, r) == [web |-> w, locations |-> l, results |-> r]

\* the parameters of a perform_* / get_* call
Req(q, c, o, cc, lc, f) ==
  [query |-> q, count |-> c, offset |-> o, country |-> cc, search_lang |-> lc,
   freshness |-> f]
NoReq == Req(<<>>, 0, 0, None, None, None)

\* values an invocation keeps across awaits: location_ids, pois_data
NoHeld == [ids |-> <<>>, pois |-> <<>>]

\* how a perform_* function goes on after an exchange: it returns, or it calls
\* the next function (which starts with its own check_rate_limit)
Return(res) == [done |-> TRUE, res |-> res]
Call(s, r, h) == [done |-> FALSE, stage |-> s, req |-> r, held |-> h]

\* perform_web_search, lines 632-648
AfterWeb(o) ==
  IF o.kind = "bad_json" THEN Return(Err(DecodeErrorMsg))
  ELSE Return(Ok(FormatWeb(unwrap_or(o.data.web, <<>>))))

\* perform_news_search, lines 556-599
AfterNews(o) ==
  IF o.kind = "bad_json"
    THEN Return(Ok(<<"Failed to parse API response: ">> \o SerdeErrorMsg))
    ELSE Return(Ok(FormatNews(o.data.results)))

\* perform_local_search, lines 683-757
AfterLocations(rq, o) ==
  IF o.kind = "bad_json" THEN Return(Err(DecodeErrorMsg))
  ELSE IF ~o.data.locations.some \/ Len(o.data.locations.v) = 0
    THEN Call("web", Req(rq.query, rq.count, 0, None, None, None), NoHeld)
  ELSE LET location_refs == o.data.locations.v
           location_ids == [i \in 1..Len(location_refs) |-> location_refs[i].id]
           results == LocationBlocks(location_refs)
       IN IF Len(results) # 0
            THEN Return(Ok(Join(results, <<"\n---\n">>)))
            ELSE Call("pois", rq, [ids |-> location_ids, pois |-> <<>>])

\* get_pois_data, lines 788-789, and its caller, lines 754-755
AfterPois(rq, hd, o) ==
  IF o.kind = "bad_json" THEN Return(Err(DecodeErrorMsg))
  ELSE Call("descriptions", rq, [hd EXCEPT !.pois = o.data.results])

\* get_descriptions_data, lines 821-822, and its caller, lines 755-757
AfterDescriptions(hd, o) ==
  IF o.kind = "bad_json" THEN Return(Err(DecodeErrorMsg))
  ELSE Return(Ok(format_local_results(hd.pois, o.data.descriptions)))

\* what the invocation does with the outcome of the exchange of `stage`
Continue(s, rq, hd, o) ==
  IF HttpFailure(o).some THEN Return(Err(HttpFailure(o).v))
  ELSE CASE s = "web" -> AfterWeb(o)
         [] s = "news" -> AfterNews(o)
         [] s = "locations" -> AfterLocations(rq, o)
         [] s = "pois" -> AfterPois(rq, hd, o)
         [] s = "descriptions" -> AfterDescriptions(hd, o)

\* the request each stage sends: url and query parameters (None: not sent)
Wire(u, q, c, o, cc, lc, sp, f, rf, ids) ==
  [url |-> u, q |-> q, count |-> c, offset |-> o, country |-> cc,
   search_lang |-> lc, spellcheck |-> sp, freshness |-> f, result_filter |-> rf,
   ids |-> ids]
NoWire == Wire("", None, None, None, None, None, None, None, None, None)

\* lines 513-533, 605-612, 655-663, 763-768, 795-801
Request(s, rq, hd) ==
  CASE s = "web" ->
         Wire("https://api.search.brave.com/res/v1/web/search", Some(rq.query),
              Some(rq.count), Some(rq.offset), None, None, None, None, None, None)
    [] s = "news" ->
         Wire("https://api.search.brave.com/res/v1/news/search", Some(rq.query),
              Some(rq.count), Some(rq.offset),
              Some(CountryCode_to_string(unwrap_or(rq.country, CountryCode_default))),
              Some(LanguageCode_to_string(unwrap_or(rq.search_lang, LanguageCode_default))),
              Some(<<"1">>), rq.freshness, None, None)
    [] s = "locations" ->
         Wire("https://api.search.brave.com/res/v1/web/search", Some(rq.query),
              Some(rq.count), None, None, Some(<<"e","n">>), None, None,
              Some(<<"locations">>), None)
    [] s = "pois" ->
         Wire("https://api.search.brave.com/res/v1/local/pois", None, None, None,
              None, None, None, None, None, Some(hd.ids))
    [] s = "descriptions" ->
         Wire("https://api.search.brave.com/res/v1/local/descriptions", None, None,
              None, None, None, None, None, None, Some(hd.ids))


\* ------------------------------------------------------------ tool methods
Reply(text) == [done |-> TRUE, text |-> text]

\* brave_web_search, lines 906-910, up to the call of perform_web_search
brave_web_search(a) ==
  LET count == min(unwrap_or(a.count, 10), 20)
      offset == min(unwrap_or(a.offset, 0), 9)
  IN Call("web", Req(a.query, count, offset, None, None, None), NoHeld)

\* mutant: a code that does not parse is replaced by the default
brave_news_search_Lenient(a) ==
  LET count == min(unwrap_or(a.count, 20), 50)
      offset == min(unwrap_or(a.offset, 0), 9)
      country_code == IF a.country.some THEN CountryCode_from_str(a.country.v)
                      ELSE Ok(<<>>)
      lang_code == IF a.search_lang.some THEN LanguageCode_from_str(a.search_lang.v)
                   ELSE Ok(<<>>)
  IN Call("news",
          Req(a.query, count, offset,
              IF a.country.some /\ country_code.ok THEN Some(country_code.v) ELSE None,
              IF a.search_lang.some /\ lang_code.ok THEN Some(lang_code.v) ELSE None,
              a.freshness),
          NoHeld)

\* brave_news_search, lines 956-989, up to the call of perform_news_search
brave_news_search(a) ==
  LET count == min(unwrap_or(a.count, 20), 50)
      offset == min(unwrap_or(a.offset, 0), 9)
      country_code == IF a.country.some THEN CountryCode_from_str(a.country.v)
                      ELSE Ok(<<>>)
      lang_code == IF a.search_lang.some THEN LanguageCode_from_str(a.search_lang.v)
                   ELSE Ok(<<>>)
  IN IF ~country_code.ok
       THEN Reply(<<"Error parsing country code: ">> \o country_code.e)
     ELSE IF ~lang_code.ok
       THEN Reply(<<"Error parsing language code: ">> \o lang_code.e)
     ELSE Call("news",
               Req(a.query, count, offset,
                   IF a.country.some THEN Some(country_code.v) ELSE None,
                   IF a.search_lang.some THEN Some(lang_code.v) ELSE None,
                   a.freshness),
               NoHeld)

\* brave_local_search, lines 1012-1015, up to the call of perform_local_search
brave_local_search(a) ==
  LET count == min(unwrap_or(a.count, 5), 20)
  IN Call("locations", Req(a.query, count, 0, None, None, None), NoHeld)

\* the #[tool] dispatch
Invoke(a) ==
  CASE a.tool = "web" -> brave_web_search(a)
    [] a.tool = "news" -> brave_news_search(a)
    [] a.tool = "local" -> brave_local_search(a)

\* the arguments of one tool invocation
Args(t, q, c, o, cc, lc, f) ==
  [tool |-> t, query |-> q, count |-> c, offset |-> o, country |-> cc,
   search_lang |-> lc, freshness |-> f]
NoArgs == Args("none", <<>>, None, None, None, None, None)

\* ------------------------------------------------------------------ inputs
\* Strings a caller passes.
Query1 == <<"p","i","z","z","a">>
Query2 == <<"n","e","w","s">>
Countries == {None, Some(<<"u","s">>), Some(<<"J","p">>), Some(<<"Z","Z">>)}
Languages == {None, Some(<<"e","n","-","g","b">>), Some(<<"e","n","_","g","b">>),
              Some(<<"x","x">>)}
Freshnesses == {None, Some(<<"w">>), Some(<<"p","w">>)}

\* every letter-casing of a string
RECURSIVE Casings(_)
Casings(s) ==
  IF Len(s) = 0 THEN {<<>>}
  ELSE {<<c>> \o r : c \in {LowerChar(Head(s)), UpperChar(Head(s))},
                      r \in Casings(Tail(s))}

\* Strings handed to CountryCode::from_str: every casing of every variant's
\* name, and strings that are no variant's name.
OtherCountryInputs ==
  { <<"Z","Z">>, <<"z","z">>, <<"z","Z">>, <<>>, <<"u">>, <<"u","s","a">>,
    <<" ","u","s">>, <<"u","-","s">>, <<"e","n">>, <<"u","U+017F">>,
    <<"U+0131","t">>, <<"U+212A","R">> }
CountryInputs == UNION {Casings(c) : c \in CountryCodes} \cup OtherCountryInputs

\* Strings handed to LanguageCode::from_str: every casing of every variant's
\* Display form, the underscore spellings, and strings that are neither.
OtherLanguageInputs ==
  { <<"x","x">>, <<"X","X">>, <<"x","X">>, <<>>, <<"e">>, <<"e","n","g">>,
    <<"e","n","-","u","s">>, <<"e","n"," ","g","b">>, <<"e","n","g","b">>,
    <<"z","h">>, <<"j","p">>, <<"U+212A","o">>, <<"u","U+212A">> }
LanguageInputs ==
  UNION {Casings(LanguageCode_to_string(l)) : l \in LanguageCodes}
    \cup {a[1] : a \in LocaleArms}
    \cup {to_uppercase(a[1]) : a \in LocaleArms}
    \cup OtherLanguageInputs

\* Invocations of the sequential specification.
WebArgs ==
  {Args("web", Query1, c, None, None, None, None) :
     c \in {None, Some(0), Some(3), Some(20), Some(21), Some(999)}}
  \cup {Args("web", Query1, c, o, None, None, None) :
          c \in {None, Some(999)}, o \in {Some(4), Some(9), Some(10), Some(50)}}
NewsArgs ==
  {Args("news", Query2, c[1], c[2], None, None, f) :
     c \in {<<None, None>>, <<Some(999), Some(50)>>}, f \in Freshnesses}
  \cup {Args("news", Query2, c[1], c[2], None, None, None) :
          c \in {<<Some(0), Some(9)>>, <<Some(50), Some(10)>>, <<Some(51), None>>}}
  \cup {Args("news", Query2, None, None, cc, lc, None) :
          cc \in Countries, lc \in Languages}
LocalArgs ==
  {Args("local", q, c, None, None, None, None) :
     q \in {Query1, Query2}, c \in {None, Some(0), Some(999)}}
  \cup {Args("local", Query1, c, None, None, None, None) : c \in {Some(20), Some(21)}}
AllArgs == WebArgs \cup NewsArgs \cup LocalArgs

\* Invocations of the concurrent specification.
FewArgs ==
  { Args("web", Query1, None, None, None, None, None),
    Args("news", Query2, None, None, None, None, None),
    Args("news", Query2, None, None, Some(<<"Z","Z">>), None, None),
    Args("local", Query1, None, None, None, None, None) }

\* Upstream bodies.
W1 == [title |-> <<"T1">>, description |-> <<"D1">>, url |-> <<"U1">>]
W2 == [title |-> <<"T2">>, description |-> <<>>, url |-> <<"U2">>]
N1 == [title |-> <<"T1">>, description |-> <<"D1">>, url |-> <<"U1">>,
       age |-> Some(<<"2 hours ago">>), breaking |-> Some(TRUE),
       thumbnail |-> Some([src |-> Some(<<"S1">>)])]
N2 == [title |-> <<"T2">>, description |-> <<"D2">>, url |-> <<"U2">>,
       age |-> None, breaking |-> None, thumbnail |-> None]
N3 == [title |-> <<"T3">>, description |-> <<"D3">>, url |-> <<"U3">>,
       age |-> Some(<<"1 day ago">>), breaking |-> Some(FALSE),
       thumbnail |-> Some([src |-> None])]
NoAddress == [street_address |-> None, address_locality |-> None,
              address_region |-> None, postal_code |-> None, country |-> None]
L1 == [id |-> <<"id1">>, title |-> None, coordinates |-> None,
       postal_address |-> None]
L2 == [id |-> <<"id2">>, title |-> Some(<<"Cafe">>),
       coordinates |-> Some(<<<<"40.7">>, <<"-74">>>>),
       postal_address |-> Some([NoAddress EXCEPT
                                  !.street_address = Some(<<"1 Main St">>),
                                  !.address_locality = Some(<<>>),
                                  !.country = Some(<<"US">>)])]
L3 == [id |-> <<"id3">>, title |-> None, coordinates |-> Some(<<<<"40.7">>>>),
       postal_address |-> Some(NoAddress)]
P1 == [id |-> <<"id1">>, name |-> <<"Cafe">>,
       address |-> [street_address |-> Some(<<"1 Main St">>),
                    address_locality |-> None, address_region |-> None,
                    postal_code |-> Some(<<"10001">>)],
       phone |-> None,
       rating |-> Some([rating_value |-> Some(<<"4.5">>), rating_count |-> None]),
       opening_hours |-> Some(<<<<"Mo 9-17">>, <<"Tu 9-17">>>>),
       price_range |-> None]

WebData ==
  { Body(None, None, <<>>), Body(Some(<<>>), None, <<>>),
    Body(Some(<<W1>>), None, <<>>), Body(Some(<<W1, W2>>), None, <<>>) }
NewsData ==
  { Body(None, None, <<>>), Body(None, None, <<N1>>), Body(None, None, <<N2, N3>>) }
LocationsData ==
  { Body(None, None, <<>>), Body(Some(<<W1>>), Some(<<>>), <<>>),
    Body(None, Some(<<L1>>), <<>>), Body(None, Some(<<L2, L3>>), <<>>) }
PoisData == { [results |-> <<>>], [results |-> <<P1>>] }
DescriptionsData ==
  { [descriptions |-> <<>>], [descriptions |-> [i \in {<<"id1">>} |-> <<"Nice">>]] }

\* the bodies the exchange of a stage can return
Data(s) ==
  CASE s = "web" -> WebData
    [] s = "news" -> NewsData
    [] s = "locations" -> LocationsData
    [] s = "pois" -> PoisData
    [] s = "descriptions" -> DescriptionsData

Failures ==
  { SendError, Status("429", <<"Too Many Requests">>, TRUE),
    Status("599", <<>>, TRUE), Status("500", <<"Internal Server Error">>, FALSE),
    BodyError, BadJson }

\* every outcome of the exchange of a stage
Outcomes(s) == Failures \cup {Json(d) : d \in Data(s)}

\* the outcomes the concurrent specification draws from
FewOutcomes(s) ==
  { SendError, Status("429", <<"Too Many Requests">>, TRUE), BadJson }
    \cup CASE s = "web" -> {Json(Body(Some(<<W1>>), None, <<>>))}
           [] s = "news" -> {Json(Body(None, None, <<N1>>))}
           [] s = "locations" -> {Json(Body(None, None, <<>>)),
                                  Json(Body(None, Some(<<L1>>), <<>>))}
           [] OTHER -> {Json(d) : d \in Data(s)}

\* ------------------------------------------------------------------ state
\* entries of the history `log`
Event(e, s) == [ev |-> e, stage |-> s, o |-> None]
Response(s, o) == [ev |-> "response", stage |-> s, o |-> Some(o)]

\* Commands::Stdio, and the library used without main: serve is not called
NoServer == [pc |-> "none", waited |-> "no", cancelled |-> FALSE, result |-> None]

\* BraveSearchRouter::new: a new limiter, no invocation running
Init ==
  /\ request_count = NewRequestCount
  /\ elapsed = 0
  /\ lock = NoTask
  /\ result = None
  /\ pc = [t \in Tasks |-> "idle"]
  /\ tool = [t \in Tasks |-> "none"]
  /\ arg = [t \in Tasks |-> NoArgs]
  /\ stage = [t \in Tasks |-> "none"]
  /\ req = [t \in Tasks |-> NoReq]
  /\ held = [t \in Tasks |-> NoHeld]
  /\ wire = [t \in Tasks |-> NoWire]
  /\ out = [t \in Tasks |-> <<>>]
  /\ log = [t \in Tasks |-> <<>>]
  /\ calls = 0
  /\ admitted = 0
  /\ in_window = 0
  /\ sent = 0
  /\ failed = FALSE
  /\ since_admit = ElapsedCap
  /\ server = NoServer

\* the clock advances by one tick
Tick ==
  /\ elapsed' = IF elapsed < ElapsedCap THEN elapsed + 1 ELSE elapsed
  /\ since_admit' = IF since_admit < ElapsedCap THEN since_admit + 1
                                                   ELSE since_admit
  /\ UNCHANGED <<request_count, lock, result, taskvars, calls, admitted,
                 in_window, sent, failed, server>>

\* one caller awaiting check_rate_limit to completion (test_rate_limiter)
DirectCall ==
  /\ lock = NoTask
  /\ LET r == check_rate_limit(request_count, elapsed) IN
       /\ request_count' = r[1]
       /\ elapsed' = r[2]
       /\ result' = r[3]
       /\ admitted' = IF r[3].ok THEN admitted + 1 ELSE admitted
       /\ in_window' = (IF elapsed > OneSecond THEN 0 ELSE in_window)
                         + (IF r[3].ok THEN 1 ELSE 0)
       /\ since_admit' = IF r[3].ok THEN 0 ELSE since_admit
  /\ UNCHANGED <<lock, taskvars, calls, sent, failed, server>>

\* the invocation of task t ends: the tool method returns `text`
Finish(t, text) ==
  /\ pc' = [pc EXCEPT ![t] = "done"]
  /\ out' = [out EXCEPT ![t] = text]
  /\ stage' = [stage EXCEPT ![t] = "none"]
  /\ req' = [req EXCEPT ![t] = NoReq]
  /\ held' = [held EXCEPT ![t] = NoHeld]

\* task t calls the function of stage s, which begins with check_rate_limit
Enter(t, k) ==
  /\ pc' = [pc EXCEPT ![t] = "lock"]
  /\ stage' = [stage EXCEPT ![t] = k.stage]
  /\ req' = [req EXCEPT ![t] = k.req]
  /\ held' = [held EXCEPT ![t] = k.held]
  /\ out' = [out EXCEPT ![t] = <<>>]

\* a tool method is invoked with arguments a and runs to its first await
Start(t, a) ==
  /\ pc[t] \in {"idle", "done"}
  /\ calls < MaxCalls
  /\ calls' = calls + 1
  /\ tool' = [tool EXCEPT ![t] = a.tool]
  /\ arg' = [arg EXCEPT ![t] = a]
  /\ wire' = [wire EXCEPT ![t] = NoWire]
  /\ log' = [log EXCEPT ![t] = <<>>]
  /\ LET k == Invoke(a) IN
       IF k.done THEN Finish(t, k.text) ELSE Enter(t, k)
  /\ UNCHANGED <<limiter, result, admitted, in_window, sent, failed,
                 since_admit, server>>

\* mutant: the counters are not behind a mutex
MutexFree_Unguarded == TRUE

\* tokio::sync::Mutex: lock() completes only while no guard is alive
MutexFree == lock = NoTask

\* check_rate_limit, line 291: self.request_count.lock().await
Acquire(t) ==
  /\ pc[t] = "lock"
  /\ MutexFree
  /\ lock' = t
  /\ pc' = [pc EXCEPT ![t] = "window"]
  /\ log' = [log EXCEPT ![t] = Append(@, Event("check", stage[t]))]
  /\ UNCHANGED <<request_count, elapsed, result, tool, arg, stage, req, held,
                 wire, out, calls, admitted, in_window, sent, failed,
                 since_admit, server>>

\* check_rate_limit, lines 292-297: read the clock, reset the window
Window(t) ==
  /\ pc[t] = "window"
  /\ LET w == WindowReset(request_count, elapsed) IN
       /\ request_count' = w[1]
       /\ elapsed' = w[2]
  /\ in_window' = IF elapsed > OneSecond THEN 0 ELSE in_window
  /\ pc' = [pc EXCEPT ![t] = "test"]
  /\ UNCHANGED <<lock, result, tool, arg, stage, req, held, wire, out, log,
                 calls, admitted, sent, failed, since_admit, server>>

\* mutant: the Err of check_rate_limit is dropped and the request is sent
Test_SendAnyway(t) ==
  /\ pc[t] = "test"
  /\ IF LimitExceeded(request_count)
       THEN /\ lock' = NoTask
            /\ log' = [log EXCEPT ![t] = Append(@, Event("reject", stage[t]))]
            /\ pc' = [pc EXCEPT ![t] = "send"]
            /\ failed' = TRUE
            /\ UNCHANGED <<out, stage, req, held>>
       ELSE /\ pc' = [pc EXCEPT ![t] = "incr"]
            /\ UNCHANGED <<lock, log, out, stage, req, held, failed>>
  /\ UNCHANGED <<request_count, elapsed, result, tool, arg, wire, calls,
                 admitted, in_window, sent, since_admit, server>>

\* mutant: a rejected caller goes back to wait for the window to reopen
Test_Retry(t) ==
  /\ pc[t] = "test"
  /\ IF LimitExceeded(request_count)
       THEN /\ lock' = NoTask
            /\ log' = [log EXCEPT ![t] = Append(@, Event("reject", stage[t]))]
            /\ pc' = [pc EXCEPT ![t] = "lock"]
            /\ failed' = TRUE
            /\ UNCHANGED <<out, stage, req, held>>
       ELSE /\ pc' = [pc EXCEPT ![t] = "incr"]
            /\ UNCHANGED <<lock, log, out, stage, req, held, failed>>
  /\ UNCHANGED <<request_count, elapsed, result, tool, arg, wire, calls,
                 admitted, in_window, sent, since_admit, server>>

\* mutant: the guard outlives a rejected check
Test_KeepLock(t) ==
  /\ pc[t] = "test"
  /\ IF LimitExceeded(request_count)
       THEN /\ log' = [log EXCEPT ![t] = Append(@, Event("reject", stage[t]))]
            /\ failed' = TRUE
            /\ Finish(t, ToolText(Err(RateLimitError)))
            /\ UNCHANGED lock
       ELSE /\ pc' = [pc EXCEPT ![t] = "incr"]
            /\ UNCHANGED <<lock, log, out, stage, req, held, failed>>
  /\ UNCHANGED <<request_count, elapsed, result, tool, arg, wire, calls,
                 admitted, in_window, sent, since_admit, server>>

\* check_rate_limit, lines 299-301: the limit test; on Err the guard is dropped
\* and the error propagates through every `?` to the tool method
Test(t) ==
  /\ pc[t] = "test"
  /\ IF LimitExceeded(request_count)
       THEN /\ lock' = NoTask
            /\ log' = [log EXCEPT ![t] = Append(@, Event("reject", stage[t]))]
            /\ failed' = TRUE
            /\ Finish(t, ToolText(Err(RateLimitError)))
       ELSE /\ pc' = [pc EXCEPT ![t] = "incr"]
            /\ UNCHANGED <<lock, log, out, stage, req, held, failed>>
  /\ UNCHANGED <<request_count, elapsed, result, tool, arg, wire, calls,
                 admitted, in_window, sent, since_admit, server>>

\* mutant: the guard is returned to the caller and lives on over the request
Incr_KeepLock(t) ==
  /\ pc[t] = "incr"
  /\ request_count' = Increment(request_count)
  /\ admitted' = admitted + 1
  /\ in_window' = in_window + 1
  /\ pc' = [pc EXCEPT ![t] = "send"]
  /\ log' = [log EXCEPT ![t] = Append(@, Event("admit", stage[t]))]
  /\ UNCHANGED <<lock, elapsed, result, tool, arg, stage, req, held, wire, out,
                 calls, sent, failed, since_admit, server>>

\* check_rate_limit, lines 303-307: count the call, drop the guard, return Ok
Incr(t) ==
  /\ pc[t] = "incr"
  /\ request_count' = Increment(request_count)
  /\ lock' = NoTask
  /\ admitted' = admitted + 1
  /\ in_window' = in_window + 1
  /\ pc' = [pc EXCEPT ![t] = "send"]
  /\ log' = [log EXCEPT ![t] = Append(@, Event("admit", stage[t]))]
  /\ UNCHANGED <<elapsed, result, tool, arg, stage, req, held, wire, out,
                 calls, sent, failed, since_admit, server>>

\* the request of the stage is built and sent: .send().await
Send(t) ==
  /\ pc[t] = "send"
  /\ wire' = [wire EXCEPT ![t] = Request(stage[t], req[t], held[t])]
  /\ sent' = sent + 1
  /\ pc' = [pc EXCEPT ![t] = "await"]
  /\ log' = [log EXCEPT ![t] = Append(@, Event("send", stage[t]))]
  /\ UNCHANGED <<limiter, result, tool, arg, stage, req, held, out, calls,
                 admitted, in_window, failed, since_admit, server>>

\* mutant: a failed exchange gives its unit of the monthly budget back
Respond_Refund(t, o) ==
  /\ pc[t] = "await"
  /\ log' = [log EXCEPT ![t] = Append(@, Response(stage[t], o))]
  /\ LET k == Continue(stage[t], req[t], held[t], o) IN
       IF k.done THEN Finish(t, ToolText(k.res)) ELSE Enter(t, k)
  /\ failed' = (failed \/ o.kind # "json")
  /\ request_count' = IF o.kind # "json"
                        THEN [request_count EXCEPT !.month = @ - 1]
                        ELSE request_count
  /\ UNCHANGED <<elapsed, lock, result, tool, arg, wire, calls, admitted,
                 in_window, sent, since_admit, server>>

\* the exchange of the stage comes to outcome o and the invocation goes on to
\* its next await or to its return
Respond(t, o) ==
  /\ pc[t] = "await"
  /\ log' = [log EXCEPT ![t] = Append(@, Response(stage[t], o))]
  /\ LET k == Continue(stage[t], req[t], held[t], o) IN
       IF k.done THEN Finish(t, ToolText(k.res)) ELSE Enter(t, k)
  /\ failed' = (failed \/ o.kind # "json")
  /\ UNCHANGED <<limiter, result, tool, arg, wire, calls, admitted, in_window,
                 sent, since_admit, server>>

\* CountryCode::from_str(s) called directly (test_country_code_from_str), and
\* the value it returns displayed (test_country_code_display)
CountryCall(s) ==
  LET r == CountryCode_from_str(s) IN
    /\ arg' = [arg EXCEPT ![1] = Args("none", <<>>, None, None, Some(s), None, None)]
    /\ result' = r
    /\ out' = [out EXCEPT ![1] = IF r.ok THEN CountryCode_to_string(r.v) ELSE <<>>]
    /\ UNCHANGED <<limiter, pc, tool, stage, req, held, wire, log, calls,
                   admitted, in_window, sent, failed, since_admit, server>>

\* LanguageCode::from_str(s) called directly (test_language_code_from_str), and
\* the value it returns displayed (test_language_code_display)
LanguageCall(s) ==
  LET r == LanguageCode_from_str(s) IN
    /\ arg' = [arg EXCEPT ![1] = Args("none", <<>>, None, None, None, Some(s), None)]
    /\ result' = r
    /\ out' = [out EXCEPT ![1] = IF r.ok THEN LanguageCode_to_string(r.v) ELSE <<>>]
    /\ UNCHANGED <<limiter, pc, tool, stage, req, held, wire, log, calls,
                   admitted, in_window, sent, failed, since_admit, server>>

\* ------------------------------------------------------- transport (SSE)
\* Commands::Sse: main has built the router and calls sse_server::serve
ServerStart == [pc |-> "bind", waited |-> "no", cancelled |-> FALSE, result |-> None]

\* tool invocations are dispatched from with_service until main returns
Serving == server.pc \in {"wait", "cancel", "return", "finished"}

\* serve, lines 10-26: SseServer::serve(addr).await? fails and serve returns
\* the error, which main returns in its turn; or the service is attached, the
\* shutdown task is spawned and main awaits its handle
Bind(ok) ==
  /\ server.pc = "bind"
  /\ server' = IF ok THEN [server EXCEPT !.pc = "wait"]
                     ELSE [server EXCEPT !.pc = "exited",
                                         !.result = Some(Err(<<"bind">>))]
  /\ UNCHANGED <<limiter, result, taskvars, calls, admitted, in_window, sent,
                 failed, since_admit>>

\* serve, line 17: tokio::signal::ctrl_c().await completes, with the signal
\* (how = "signal") or with an error that is printed (how = "error")
CtrlC(how) ==
  /\ server.pc = "wait"
  /\ server' = [server EXCEPT !.pc = "cancel", !.waited = how]
  /\ UNCHANGED <<limiter, result, taskvars, calls, admitted, in_window, sent,
                 failed, since_admit>>

\* mutant: the token is cancelled without waiting for the signal
Cancel_Early ==
  /\ server.pc \in {"wait", "cancel"}
  /\ server' = [server EXCEPT !.pc = "return", !.cancelled = TRUE]
  /\ UNCHANGED <<limiter, result, taskvars, calls, admitted, in_window, sent,
                 failed, since_admit>>

\* serve, line 22: cancellation_token.cancel()
Cancel ==
  /\ server.pc = "cancel"
  /\ server' = [server EXCEPT !.pc = "return", !.cancelled = TRUE]
  /\ UNCHANGED <<limiter, result, taskvars, calls, admitted, in_window, sent,
                 failed, since_admit>>

\* serve, line 24: the spawned task ends with Ok(())
ServeReturn ==
  /\ server.pc = "return"
  /\ server' = [server EXCEPT !.pc = "finished", !.result = Some(Ok(<<>>))]
  /\ UNCHANGED <<limiter, result, taskvars, calls, admitted, in_window, sent,
                 failed, since_admit>>

\* main, lines 83-85: server.await? completes and main returns Ok(()); the
\* runtime goes with it and nothing is polled any more
MainReturn ==
  /\ server.pc = "finished"
  /\ server' = [server EXCEPT !.pc = "exited"]
  /\ UNCHANGED <<limiter, result, taskvars, calls, admitted, in_window, sent,
                 failed, since_admit>>

\* ---------------------------------------------------------- specifications
\* The two codecs alone, called on every input.
NextCodec ==
  \/ \E s \in CountryInputs : CountryCall(s)
  \/ \E s \in LanguageInputs : LanguageCall(s)

SpecCodec == Init /\ [][NextCodec]_vars

\* The limiter alone, driven by one caller at a time.
NextLimiter == Tick \/ DirectCall

SpecLimiter == Init /\ [][NextLimiter]_vars

\* One connection (stdio): one invocation at a time, every input and outcome.
NextSeq ==
  \/ Tick
  \/ \E a \in AllArgs : Start(1, a)
  \/ Acquire(1)
  \/ Window(1)
  \/ Test(1)
  \/ Incr(1)
  \/ Send(1)
  \/ pc[1] = "await" /\ \E o \in Outcomes(stage[1]) : Respond(1, o)

SpecSeq == Init /\ [][NextSeq]_vars

\* Concurrent invocations on one service and its clones (SSE).
Next ==
  \/ Tick
  \/ \E t \in Tasks :
       \/ \E a \in FewArgs : Start(t, a)
       \/ Acquire(t)
       \/ Window(t)
       \/ Test(t)
       \/ Incr(t)
       \/ Send(t)
       \/ pc[t] = "await" /\ \E o \in FewOutcomes(stage[t]) : Respond(t, o)

Spec == Init /\ [][Next]_vars

\* The SSE server from main to its shutdown, with one session's invocations.
InitServe ==
  /\ request_count = NewRequestCount
  /\ elapsed = 0
  /\ lock = NoTask
  /\ result = None
  /\ pc = [t \in Tasks |-> "idle"]
  /\ tool = [t \in Tasks |-> "none"]
  /\ arg = [t \in Tasks |-> NoArgs]
  /\ stage = [t \in Tasks |-> "none"]
  /\ req = [t \in Tasks |-> NoReq]
  /\ held = [t \in Tasks |-> NoHeld]
  /\ wire = [t \in Tasks |-> NoWire]
  /\ out = [t \in Tasks |-> <<>>]
  /\ log = [t \in Tasks |-> <<>>]
  /\ calls = 0
  /\ admitted = 0
  /\ in_window = 0
  /\ sent = 0
  /\ failed = FALSE
  /\ since_admit = ElapsedCap
  /\ server = ServerStart

NextServe ==
  \/ \E ok \in BOOLEAN : Bind(ok)
  \/ \E how \in {"signal", "error"} : CtrlC(how)
  \/ Cancel
  \/ ServeReturn
  \/ MainReturn
  \/ Serving /\ Tick
  \/ Serving /\ \E a \in FewArgs : Start(1, a)
  \/ Serving /\ Acquire(1)
  \/ Serving /\ Window(1)
  \/ Serving /\ Test(1)
  \/ Serving /\ Incr(1)
  \/ Serving /\ Send(1)
  \/ Serving /\ pc[1] = "await" /\ \E o \in FewOutcomes(stage[1]) : Respond(1, o)

\* the spawned task is polled again once its await is over: the runtime lives
\* until main returns, and main returns only after the task has finished
SpecServe ==
  InitServe /\ [][NextServe]_vars /\ WF_vars(Cancel) /\ WF_vars(ServeReturn)

\* ------------------------------------------------------------- properties
\* the counters a check_rate_limit call tests: those left by its window reset
SecondAfterReset == IF elapsed > OneSecond THEN 0 ELSE request_count.second

\* C1: a check_rate_limit call that, after its window reset, finds
\* second_count >= 1 or month_count >= 15000 fails with "Rate limit exceeded"
\* and increments neither counter.
C1_RejectedAtLimit ==
  [][DirectCall =>
       ((SecondAfterReset >= 1 \/ request_count.month >= 15000) =>
          /\ result' = Err(<<"Rate limit exceeded">>)
          /\ request_count'.second = SecondAfterReset
          /\ request_count'.month = request_count.month
          /\ admitted' = admitted)]_vars

\* a call was rejected by the monthly limit alone, in a fresh window
C1_Witness ==
  /\ result = Err(<<"Rate limit exceeded">>)
  /\ request_count.month = 15000
  /\ request_count.second = 0

\* C2: a check_rate_limit call that, after its window reset, finds
\* second_count < 1 and month_count < 15000 succeeds and increments each
\* counter by exactly 1; the first call on a new limiter succeeds.
C2_AdmittedBelowLimit ==
  [][DirectCall =>
       /\ (SecondAfterReset < 1 /\ request_count.month < 15000) =>
            /\ result' = Ok(<<>>)
            /\ request_count'.second = SecondAfterReset + 1
            /\ request_count'.month = request_count.month + 1
            /\ admitted' = admitted + 1
       /\ (result = None) => result' = Ok(<<>>)]_vars

\* the call that takes the last unit of the monthly budget was admitted
C2_Witness ==
  /\ result = Ok(<<>>)
  /\ request_count.month = 15000
  /\ request_count.second = 1

\* the number of events e in the log l
Count(l, e) == Cardinality({i \in 1..Len(l) : l[i].ev = e})

\* C3: every upstream request is sent only after a check_rate_limit call made
\* for it in the same invocation returned Ok, one admission per request, so
\* the requests sent never outnumber the admitted gate checks.
C3_GateBeforeRequest ==
  /\ sent <= admitted
  /\ \A t \in Tasks :
       LET l == log[t] IN
         /\ \A i \in 1..Len(l) :
              l[i].ev = "send" =>
                /\ i >= 3
                /\ l[i-1] = Event("admit", l[i].stage)
                /\ l[i-2] = Event("check", l[i].stage)
         /\ Count(l, "send") <= Count(l, "admit")
         /\ pc[t] = "await" => (Len(l) > 0 /\ l[Len(l)].ev = "send")
         /\ wire[t] # NoWire => Count(l, "send") >= 1

\* a local search sent both its locations request and its fallback request
C3_Witness ==
  \E t \in Tasks :
    /\ tool[t] = "local"
    /\ Count(log[t], "send") = 2
    /\ Count(log[t], "admit") = 2

\* C4: check_rate_limit runs as one critical section: at most one task is
\* between its lock() and the drop of the guard, no increment is lost, and of
\* the callers of one window at most one is admitted.
C4_AtomicGate ==
  LET inside == {t \in Tasks : pc[t] \in {"window", "test", "incr"}} IN
    /\ Cardinality(inside) <= 1
    /\ inside = (IF lock = NoTask THEN {} ELSE {lock})
    /\ in_window <= 1
    /\ request_count.second = in_window
    /\ request_count.month = admitted

\* two callers raced in one window: one was admitted, the other rejected
C4_Witness ==
  \E t, u \in Tasks :
    /\ t # u
    /\ pc[t] = "send"
    /\ pc[u] = "done"
    /\ Len(log[u]) = 2
    /\ log[u][2].ev = "reject"
    /\ admitted = 1

\* C5: the window step of check_rate_limit sets second_count to 0 and
\* window_start to now exactly when more than 1 second has passed since
\* window_start, leaves month_count alone, and comes before the limit test;
\* no step of any operation decreases month_count.
C5_WindowReset ==
  /\ [][\A t \in Tasks :
          Window(t) =>
            /\ pc'[t] = "test"
            /\ IF elapsed > OneSecond
                 THEN /\ request_count'.second = 0
                      /\ elapsed' = 0
                      /\ request_count'.month = request_count.month
                 ELSE /\ request_count' = request_count
                      /\ elapsed' = elapsed]_vars
  /\ [][request_count'.month >= request_count.month]_vars

\* a window step has just reset a used window
C5_Witness ==
  \E t \in Tasks :
    /\ pc[t] = "test"
    /\ lock = t
    /\ elapsed = 0
    /\ request_count.second = 0
    /\ request_count.month >= 1

\* a rejection by the gate or a failed exchange
IsFailure(e) ==
  \/ e.ev = "reject"
  \/ e.ev = "response" /\ e.o.v.kind # "json"

\* C10: within one invocation the gate check and the request of each upstream
\* call are attempted at most once, and a rejection or a failed exchange is
\* the invocation's last event: it has returned, with the error text.
C10_NoRetry ==
  \A t \in Tasks :
    LET l == log[t] IN
      /\ \A s \in {"web", "news", "locations", "pois", "descriptions"} :
           /\ Cardinality({i \in 1..Len(l) : l[i] = Event("check", s)}) <= 1
           /\ Cardinality({i \in 1..Len(l) : l[i] = Event("send", s)}) <= 1
      /\ \A i \in 1..Len(l) :
           IsFailure(l[i]) =>
             /\ i = Len(l)
             /\ pc[t] = "done"
             /\ l[i].ev = "reject" => out[t] = <<"Error: ", "Rate limit exceeded">>
             /\ (l[i].ev = "response" /\ l[i].o.v.kind # "bad_json") =>
                  (Len(out[t]) >= 2 /\ out[t][1] = "Error: ")

\* the fallback of a local search was rejected by the gate
C10_Witness ==
  \E t \in Tasks :
    /\ pc[t] = "done"
    /\ Len(log[t]) = 6
    /\ log[t][6] = Event("reject", "web")

\* the last event of a log
LastEvent(l) == l[Len(l)]

\* the locations exchange of the invocation returned no location entries
EmptyLocations(l) ==
  \E i \in 1..Len(l) :
    /\ l[i].ev = "response"
    /\ l[i].stage = "locations"
    /\ l[i].o.v.kind = "json"
    /\ \/ ~l[i].o.v.data.locations.some
       \/ Len(l[i].o.v.data.locations.v) = 0

\* C6: a local search whose locations response has no location entries
\* returns the text a web search of the same query, the same clamped count and
\* offset 0 formats to, whenever the responses arrive (exchanges that fail
\* upstream set aside).
C6_FallbackIsWebText ==
  \A t \in Tasks :
    LET l == log[t] IN
      (/\ pc[t] = "done"
       /\ tool[t] = "local"
       /\ EmptyLocations(l)
       /\ ~(LastEvent(l).ev = "response" /\ LastEvent(l).o.v.kind # "json"))
      =>
      /\ LastEvent(l).ev = "response"
      /\ LastEvent(l).stage = "web"
      /\ out[t] = FormatWeb(unwrap_or(LastEvent(l).o.v.data.web, <<>>))
      /\ wire[t].q = Some(arg[t].query)
      /\ wire[t].count = Some(min(unwrap_or(arg[t].count, 5), 20))
      /\ wire[t].offset = Some(0)

\* C7: a tool method returns a text; when the gate rejects, the transport
\* fails or the status is not 2xx, the text is "Error: " followed by the
\* failure's message ("Brave API error: {status} {reason}\n{body}" for a
\* non-2xx status whose body could be read).
C7_FailuresAsErrorText ==
  \A t \in Tasks :
    pc[t] = "done" =>
      /\ out[t] \in Seq(STRING)
      /\ Len(log[t]) > 0 =>
           LET e == LastEvent(log[t]) IN
             /\ e.ev = "reject" => out[t] = <<"Error: ", "Rate limit exceeded">>
             /\ e.ev = "response" =>
                  LET o == e.o.v IN
                    /\ o.kind = "send_error" => out[t] = <<"Error: ">> \o SendErrorMsg
                    /\ o.kind = "body_error" => out[t] = <<"Error: ">> \o BodyErrorMsg
                    /\ (o.kind = "status" /\ ~o.body_ok) =>
                         out[t] = <<"Error: ">> \o BodyErrorMsg
                    /\ (o.kind = "status" /\ o.body_ok) =>
                         out[t] = <<"Error: ", "Brave API error: ", o.code, " ">>
                                    \o o.reason \o <<"\n">> \o ErrorBody

\* a status without a canonical reason came back as an error text
C7_Witness ==
  \E t \in Tasks :
    /\ pc[t] = "done"
    /\ out[t] = <<"Error: ", "Brave API error: ", "599", " ", "\n">> \o ErrorBody

\* C8: for every search kind, a 2xx body that does not parse into the
\* expected shape comes back as the text "Error: {message}".
C8_ParseFailureIsError ==
  \A t \in Tasks :
    (/\ pc[t] = "done"
     /\ Len(log[t]) > 0
     /\ LastEvent(log[t]).ev = "response"
     /\ LastEvent(log[t]).o.v.kind = "bad_json")
    => (Len(out[t]) >= 2 /\ out[t][1] = "Error: ")

\* the strings outside the closed sets: no variant is written that way
OutsideCountries(s) ==
  \A c \in CountryCodes : CountryCode_to_string(c) # to_lowercase(s)
OutsideLanguages(s) ==
  \A l \in LanguageCodes : LanguageCode_to_string(l) # to_lowercase(s)

\* the strings the parsers refuse
RefusedCountry(s) == to_uppercase(s) \notin CountryCodes
RefusedLanguage(s) == to_lowercase(s) \notin {a[1] : a \in LanguageArms}

\* a news search that returned on a code it could not parse: nothing was
\* checked, nothing sent
ReturnedUnsearched(t, text) ==
  /\ pc[t] = "done"
  /\ out[t] = text
  /\ log[t] = <<>>
  /\ wire[t] = NoWire

\* the step in which task t is invoked and returns at once
ReturnsAtOnce(t) ==
  /\ calls' = calls + 1
  /\ pc'[t] = "done"
  /\ log'[t] = <<>>

\* C9 as stated: a news search with a country (resp. search_lang) outside the
\* closed set returns "Error parsing country code: ..." (resp. "Error parsing
\* language code: ...") at once, with no gate check, no request, and the
\* limiter unchanged.
C9_UnknownCodeReturnsAtOnce ==
  /\ [](\A t \in Tasks :
          (tool[t] = "news" /\ pc[t] # "idle") =>
            /\ (arg[t].country.some /\ OutsideCountries(arg[t].country.v)) =>
                 ReturnedUnsearched(t, <<"Error parsing country code: ",
                                         "Unknown country code: ">> \o arg[t].country.v)
            /\ (arg[t].search_lang.some /\ OutsideLanguages(arg[t].search_lang.v)) =>
                 ReturnedUnsearched(t, <<"Error parsing language code: ",
                                         "Unknown language code: ">>
                                         \o arg[t].search_lang.v))
  /\ [][\A t \in Tasks :
          ReturnsAtOnce(t) =>
            UNCHANGED <<request_count, elapsed, lock, admitted, sent>>]_vars

\* C9, amended: a country that from_str refuses returns the country error; a
\* search_lang that from_str refuses, with the country absent or accepted,
\* returns the language error; either way at once, with no gate check, no
\* request, and the limiter unchanged.
C9_RefusedCodeReturnsAtOnce ==
  /\ [](\A t \in Tasks :
          (tool[t] = "news" /\ pc[t] # "idle") =>
            /\ (arg[t].country.some /\ RefusedCountry(arg[t].country.v)) =>
                 ReturnedUnsearched(t, <<"Error parsing country code: ",
                                         "Unknown country code: ">> \o arg[t].country.v)
            /\ (/\ arg[t].search_lang.some
                /\ RefusedLanguage(arg[t].search_lang.v)
                /\ ~(arg[t].country.some /\ RefusedCountry(arg[t].country.v))) =>
                 ReturnedUnsearched(t, <<"Error parsing language code: ",
                                         "Unknown language code: ">>
                                         \o arg[t].search_lang.v))
  /\ [][\A t \in Tasks :
          ReturnsAtOnce(t) =>
            UNCHANGED <<request_count, elapsed, lock, admitted, sent>>]_vars

\* a news search returned the language error after the limiter had been used
C9_Witness ==
  \E t \in Tasks :
    /\ pc[t] = "done"
    /\ tool[t] = "news"
    /\ arg[t].country = Some(<<"J","p">>)
    /\ out[t] = <<"Error parsing language code: ", "Unknown language code: ",
                  "x", "x">>
    /\ admitted >= 1

\* C11: an invocation that has ended holds no lock, whatever it ended with;
\* and once some invocation has failed, a gate check that reads the clock more
\* than 1 second after window_start with month_count < 15000 still runs to
\* its admission: the window step clears second_count, nothing touches the
\* counters before the limit test, the test passes and the call is counted.
C11_FailuresNotSticky ==
  /\ [](\A t \in Tasks :
          /\ pc[t] \in {"idle", "done", "lock", "send", "await"} => lock # t
          /\ pc[t] \in {"window", "test", "incr"} => lock = t
          /\ (pc[t] = "done" /\ Len(log[t]) > 0 /\ IsFailure(LastEvent(log[t])))
               => failed)
  /\ [][\A t \in Tasks :
          /\ (failed /\ Window(t) /\ elapsed > OneSecond
                 /\ request_count.month < 15000)
               => (request_count'.second = 0 /\ request_count'.month < 15000
                     /\ pc'[t] = "test")
          /\ (pc[t] = "test" /\ pc'[t] = "test") => request_count' = request_count
          /\ (failed /\ pc[t] = "test" /\ pc'[t] # "test"
                 /\ request_count.second = 0 /\ request_count.month < 15000)
               => pc'[t] = "incr"
          /\ (failed /\ pc[t] = "incr" /\ pc'[t] # "incr")
               => /\ pc'[t] = "send"
                  /\ LastEvent(log'[t]) = Event("admit", stage[t])
                  /\ admitted' = admitted + 1
                  /\ lock' = NoTask]_vars

\* after its own earlier invocation failed, a task's check made in a new
\* window has just been admitted
C11_Witness ==
  \E t \in Tasks :
    /\ failed
    /\ pc[t] = "send"
    /\ elapsed = 0
    /\ in_window = 1
    /\ admitted >= 2
    /\ lock = NoTask
    /\ \A u \in Tasks \ {t} : pc[u] = "idle"

\* the documented maximum of the count of each tool
MaxCount(tl) == IF tl = "news" THEN 50 ELSE 20

\* C12: the count a tool sends upstream is the caller's count clamped to 20
\* (web, local) or 50 (news), and the offset sent by a web or news search is
\* the caller's offset clamped to 9.
C12_Clamped ==
  \A t \in Tasks :
    (wire[t] # NoWire /\ wire[t].count.some) =>
      /\ arg[t].count.some =>
           wire[t].count.v = (IF arg[t].count.v <= MaxCount(tool[t])
                                THEN arg[t].count.v ELSE MaxCount(tool[t]))
      /\ (arg[t].offset.some /\ tool[t] \in {"web", "news"}) =>
           /\ wire[t].offset.some
           /\ wire[t].offset.v = (IF arg[t].offset.v <= 9 THEN arg[t].offset.v ELSE 9)

\* a news search called with count 999 and offset 50 sent count 50, offset 9
C12_Witness ==
  \E t \in Tasks :
    /\ tool[t] = "news"
    /\ arg[t].count = Some(999)
    /\ arg[t].offset = Some(50)
    /\ wire[t].count = Some(50)
    /\ wire[t].offset = Some(9)

\* C13: the count sent upstream lies in the documented range of the tool,
\* 1..20 for web and local search and 1..50 for news search, whatever count
\* the caller supplied (0 included).
C13_CountInRange ==
  \A t \in Tasks :
    (wire[t] # NoWire /\ wire[t].count.some) =>
      (1 <= wire[t].count.v /\ wire[t].count.v <= MaxCount(tool[t]))

\* the input of the last direct codec call
CountryInput == arg[1].country.v
LanguageInput == arg[1].search_lang.v
CountryCalled == arg[1].tool = "none" /\ arg[1].country.some
LanguageCalled == arg[1].tool = "none" /\ arg[1].search_lang.some

\* C14: every letter-casing of a country token parses to its variant, the
\* variant's wire string is the lowercase token, and the wire string parses
\* back to the same variant.
C14_CountryRoundTrip ==
  CountryCalled =>
    \A c \in CountryCodes :
      CountryInput \in Casings(c) =>
        /\ result = Ok(c)
        /\ out[1] = [i \in 1..Len(c) |-> LowerChar(c[i])]
        /\ \A i \in 1..Len(out[1]) : \E j \in 1..Len(Lowers) : out[1][i] = Lowers[j]
        /\ CountryCode_from_str(out[1]) = Ok(c)
        /\ CountryCode_from_str(CountryCode_to_string(result.v)) = result

\* the mixed-case input "aLl" parsed to ALL and was displayed as "all"
C14_Witness ==
  /\ CountryCalled
  /\ CountryInput = <<"a","L","l">>
  /\ result = Ok(<<"A","L","L">>)
  /\ out[1] = <<"a","l","l">>

\* the four hyphenated wire strings, by variant
Hyphenated ==
  { <<<<"Z","h","H","a","n","s">>, <<"z","h","-","h","a","n","s">>>>,
    <<<<"Z","h","H","a","n","t">>, <<"z","h","-","h","a","n","t">>>>,
    <<<<"E","n","G","b">>, <<"e","n","-","g","b">>>>,
    <<<<"P","t","B","r">>, <<"p","t","-","b","r">>>> }

\* the wire string the closed set gives a language value
WireOf(l) ==
  IF \E h \in Hyphenated : h[1] = l
    THEN (CHOOSE h \in Hyphenated : h[1] = l)[2]
    ELSE [i \in 1..Len(l) |-> LowerChar(l[i])]

IsLower(s) == \A i \in 1..Len(s) : \A j \in 1..Len(Uppers) : s[i] # Uppers[j]
HasHyphen(s) == \E i \in 1..Len(s) : s[i] = "-"

\* what C15 says of the wire strings: lowercase, hyphenated exactly for
\* zh-hans, zh-hant, en-gb and pt-br, and parsed back in any casing
WireStrings ==
  LanguageCalled =>
    /\ result.ok =>
         /\ out[1] = WireOf(result.v)
         /\ IsLower(out[1])
         /\ HasHyphen(out[1]) <=> (\E h \in Hyphenated : h[2] = out[1])
         /\ LanguageCode_from_str(out[1]) = result
    /\ \A l \in LanguageCodes :
         LanguageInput \in Casings(WireOf(l)) => result = Ok(l)

\* C15 as stated: the wire strings are as above, and parse accepts only
\* strings that are, case aside (as to_lowercase() sets case aside), a wire
\* string of the closed set.
C15_ParseOnlyMembers ==
  /\ WireStrings
  /\ (LanguageCalled /\ result.ok) =>
       \E l \in LanguageCodes : to_lowercase(LanguageInput) = WireOf(l)

\* the underscore spellings of the hyphenated wire strings
Underscored ==
  { [i \in 1..Len(h[2]) |-> IF h[2][i] = "-" THEN "_" ELSE h[2][i]] : h \in Hyphenated }

\* C15, amended: the wire strings are as above, and parse accepts exactly
\* the strings whose to_lowercase() is a wire string of the closed set or one
\* of zh_hans, zh_hant, en_gb, pt_br.
C15_ParseMembersAndAliases ==
  /\ WireStrings
  /\ LanguageCalled =>
       (result.ok <=>
          \/ \E l \in LanguageCodes : to_lowercase(LanguageInput) = WireOf(l)
          \/ to_lowercase(LanguageInput) \in Underscored)

\* the mixed-case input "Zh-HANT" parsed to ZhHant, displayed as "zh-hant"
C15_Witness ==
  /\ LanguageCalled
  /\ LanguageInput = <<"Z","h","-","H","A","N","T">>
  /\ result = Ok(<<"Z","h","H","a","n","t">>)
  /\ out[1] = <<"z","h","-","h","a","n","t">>

\* C16 as stated: a string that is, case aside, no member of the closed set
\* is refused, with "Unknown country code: " / "Unknown language code: "
\* followed by the input as it was given.
C16_OutsideIsRefused ==
  /\ (CountryCalled /\ \A c \in CountryCodes : to_uppercase(CountryInput) # c) =>
       result = Err(<<"Unknown country code: ">> \o CountryInput)
  /\ (LanguageCalled
        /\ \A l \in LanguageCodes : to_lowercase(LanguageInput) # WireOf(l)) =>
       result = Err(<<"Unknown language code: ">> \o LanguageInput)

\* C16, amended: a string that is, case aside, no country token (resp. no
\* language wire string and none of zh_hans, zh_hant, en_gb, pt_br) is
\* refused, with the message followed by the input as given; every other
\* string is accepted.
C16_RefusedWithInput ==
  /\ CountryCalled =>
       IF \A c \in CountryCodes : to_uppercase(CountryInput) # c
         THEN result = Err(<<"Unknown country code: ">> \o CountryInput)
         ELSE result.ok
  /\ LanguageCalled =>
       IF /\ \A l \in LanguageCodes : to_lowercase(LanguageInput) # WireOf(l)
          /\ to_lowercase(LanguageInput) \notin Underscored
         THEN result = Err(<<"Unknown language code: ">> \o LanguageInput)
         ELSE result.ok

\* the mixed-case input "zZ" was refused with its casing kept
C16_Witness ==
  /\ CountryCalled
  /\ CountryInput = <<"z","Z">>
  /\ result = Err(<<"Unknown country code: ", "z", "Z">>)

\* task t has returned from a successful exchange of stage s
Answered(t, s) ==
  /\ pc[t] = "done"
  /\ Len(log[t]) > 0
  /\ LastEvent(log[t]).ev = "response"
  /\ LastEvent(log[t]).stage = s
  /\ LastEvent(log[t]).o.v.kind = "json"

\* the body of the last response of task t
Answer(t) == LastEvent(log[t]).o.v.data

\* C17: a news search whose response holds zero results returns exactly
\* "No news results found".
C17_EmptyNews ==
  \A t \in Tasks :
    (Answered(t, "news") /\ Len(Answer(t).results) = 0) =>
      out[t] = <<"No news results found">>

\* the block C18 describes for one news result
NewsBlock(r) ==
  (IF r.breaking = Some(TRUE) THEN <<"[BREAKING] ">> ELSE <<>>)
    \o <<"Title: ">> \o r.title
    \o <<"\nDescription: ">> \o r.description
    \o <<"\nURL: ">> \o r.url
    \o <<"\nAge: ">> \o (IF r.age.some THEN r.age.v ELSE <<"Unknown">>)
    \o (IF r.thumbnail.some /\ r.thumbnail.v.src.some
          THEN <<"\nThumbnail: ">> \o r.thumbnail.v.src.v
          ELSE <<>>)

\* blocks b[1..n], in order, with sep between neighbours and nowhere else
RECURSIVE Separated(_, _, _)
Separated(b, n, sep) ==
  IF n = 0 THEN <<>>
  ELSE IF n = 1 THEN b[1]
  ELSE Separated(b, n - 1, sep) \o sep \o b[n]

\* C18: a news search renders each result as Title / Description / URL / Age,
\* with "[BREAKING] " in front exactly when breaking is true, "Age: Unknown"
\* when age is absent and a Thumbnail line exactly when a thumbnail src is
\* present; results in upstream order, one blank line between them.
C18_NewsBlocks ==
  \A t \in Tasks :
    (Answered(t, "news") /\ Len(Answer(t).results) > 0) =>
      LET rs == Answer(t).results IN
        out[t] = Separated([i \in 1..Len(rs) |-> NewsBlock(rs[i])], Len(rs), <<"\n\n">>)

\* two results came back: one without age, one with a thumbnail without src
C18_Witness ==
  \E t \in Tasks :
    /\ Answered(t, "news")
    /\ out[t] = <<"Title: ", "T2", "\nDescription: ", "D2", "\nURL: ", "U2",
                  "\nAge: ", "Unknown", "\n\n",
                  "Title: ", "T3", "\nDescription: ", "D3", "\nURL: ", "U3",
                  "\nAge: ", "1 day ago">>

\* the block C19 describes for one web result
WebBlock(r) ==
  <<"Title: ">> \o r.title \o <<"\nDescription: ">> \o r.description
    \o <<"\nURL: ">> \o r.url

\* C19: a web search formats zero results, or a response without a web
\* section, to the empty string, and n >= 1 results to n blocks in upstream
\* order with one blank line between neighbours and none before or after.
C19_WebBlocks ==
  \A t \in Tasks :
    Answered(t, "web") =>
      LET rs == IF Answer(t).web.some THEN Answer(t).web.v ELSE <<>> IN
        /\ Len(rs) = 0 => out[t] = <<>>
        /\ Len(rs) > 0 =>
             /\ out[t] = Separated([i \in 1..Len(rs) |-> WebBlock(rs[i])], Len(rs),
                                   <<"\n\n">>)
             /\ out[t][1] = "Title: "
             /\ out[t][Len(out[t])] # "\n\n"
             /\ Cardinality({i \in 1..Len(out[t]) : out[t][i] = "\n\n"}) = Len(rs) - 1

\* two results came back, the second with an empty description
C19_Witness ==
  \E t \in Tasks :
    /\ Answered(t, "web")
    /\ tool[t] = "web"
    /\ out[t] = <<"Title: ", "T1", "\nDescription: ", "D1", "\nURL: ", "U1", "\n\n",
                  "Title: ", "T2", "\nDescription: ", "\nURL: ", "U2">>

\* the parts of a postal address that are present and not empty, in order
RECURSIVE Present(_)
Present(parts) ==
  IF Len(parts) = 0 THEN <<>>
  ELSE IF Head(parts).some /\ Len(Head(parts).v) > 0
    THEN <<Head(parts).v>> \o Present(Tail(parts))
  ELSE Present(Tail(parts))

\* the lines C20 describes for one location entry
LocationLines(loc) ==
  LET parts == IF loc.postal_address.some
                 THEN Present(<<loc.postal_address.v.street_address,
                                loc.postal_address.v.address_locality,
                                loc.postal_address.v.address_region,
                                loc.postal_address.v.postal_code,
                                loc.postal_address.v.country>>)
                 ELSE <<>>
  IN (IF loc.title.some THEN <<<<"Name: ">> \o loc.title.v>> ELSE <<>>)
       \o (IF Len(parts) > 0
             THEN <<<<"Address: ">> \o Separated(parts, Len(parts), <<", ">>)>>
             ELSE <<>>)
       \o (IF loc.coordinates.some /\ Len(loc.coordinates.v) >= 2
             THEN <<<<"Coordinates: ">> \o loc.coordinates.v[1] \o <<", ">>
                      \o loc.coordinates.v[2]>>
             ELSE <<>>)
       \o <<<<"ID: ">> \o loc.id>>

\* C20: a local search with a non-empty location list renders one block per
\* entry, in upstream order, joined by a "---" line; a block ends with
\* "ID: {id}" and has Name, Address and Coordinates lines only for a present
\* title, a non-empty joined address and at least two coordinates.
C20_LocationBlocks ==
  \A t \in Tasks :
    (/\ Answered(t, "locations")
     /\ Answer(t).locations.some
     /\ Len(Answer(t).locations.v) > 0) =>
      LET ls == Answer(t).locations.v
          blocks == [i \in 1..Len(ls) |->
                       Separated(LocationLines(ls[i]), Len(LocationLines(ls[i])),
                                 <<"\n">>)]
      IN /\ out[t] = Separated(blocks, Len(ls), <<"\n---\n">>)
         /\ Cardinality({i \in 1..Len(out[t]) : out[t][i] = "ID: "}) = Len(ls)
         /\ out[t][Len(out[t]) - 1] = "ID: "
         /\ out[t][Len(out[t])] = ls[Len(ls)].id[1]

\* an entry with a full set of fields and one with a lone coordinate and an
\* empty address came back
C20_Witness ==
  \E t \in Tasks :
    /\ Answered(t, "locations")
    /\ out[t] = <<"Name: ", "Cafe", "\n", "Address: ", "1 Main St", ", ", "US", "\n",
                  "Coordinates: ", "40.7", ", ", "-74", "\n", "ID: ", "id2",
                  "\n---\n", "ID: ", "id3">>

\* the recency buckets the freshness parameter is documented to take
FreshnessValues == {<<"h">>, <<"d">>, <<"w">>, <<"m">>, <<"y">>}

\* C21: the freshness parameter of every news request sent upstream is absent
\* or one of h, d, w, m, y, whatever freshness string the caller supplied.
C21_FreshnessValidated ==
  \A t \in Tasks :
    wire[t].url = "https://api.search.brave.com/res/v1/news/search" =>
      \/ ~wire[t].freshness.some
      \/ wire[t].freshness.v \in FreshnessValues

\* the steps of check_rate_limit between taking the guard and dropping it
InsideCheck == {"window", "test", "incr"}

\* a request of task t is in flight: sent, response not yet received
InFlight(t) == pc[t] = "await"

\* C22 as stated: while a request of any invocation is in flight, no task
\* holds the lock of the counters.
C22_NoLockWhileInFlight ==
  (\E t \in Tasks : InFlight(t)) => lock = NoTask

\* C22: the lock is held only by a task inside check_rate_limit, never by a
\* task that builds a request or has one in flight; a request in flight
\* therefore leaves the lock to the gate checks of the other invocations.
C22_LockOnlyInsideCheck ==
  /\ \A t \in Tasks : pc[t] \in InsideCheck <=> lock = t
  /\ \A t \in Tasks : InFlight(t) => lock # t
  /\ \A t \in Tasks :
       (pc[t] = "lock" /\ \A u \in Tasks \ {t} : pc[u] \notin InsideCheck) =>
         ENABLED Acquire(t)

\* while the request of one task is in flight another task has taken the lock
\* for its own gate check
C22_Witness ==
  \E t \in Tasks, u \in Tasks :
    /\ InFlight(t)
    /\ u # t
    /\ lock = u
    /\ pc[u] = "test"

\* C23: the token of the SSE server is cancelled only after the wait for
\* Ctrl+C has completed (by the signal or by a failure to listen); once the
\* wait has completed the token is cancelled and the task serve returned
\* finishes with Ok; the cancelling step leaves the limiter, the invocations
\* and their requests in flight as they are.
C23_CancelAfterSignal ==
  /\ [](server.cancelled => server.waited # "no")
  /\ (server.waited # "no") ~> (server.cancelled /\ server.result = Some(Ok(<<>>)))
  /\ [][server.cancelled' # server.cancelled =>
         UNCHANGED <<limiter, result, taskvars, calls, admitted, in_window, sent,
                     failed>>]_vars

\* listening for the signal failed, the token was cancelled and the task has
\* finished with Ok while a request admitted by the gate is still in flight
C23_Witness ==
  /\ server.waited = "error"
  /\ server.cancelled
  /\ server.result = Some(Ok(<<>>))
  /\ InFlight(1)
  /\ request_count.month = 1

C25_AdmissionsOneSecondApart ==
  [][(DirectCall /\ admitted >= 1 /\ admitted' = admitted + 1) =>
       since_admit > OneSecond]_vars

\* C26: month_count equals the number of gate checks admitted since the
\* limiter was constructed, and the end of an exchange, failed or not, gives
\* nothing back: it leaves both counters and the window as they are.
C26_AdmissionsNeverRefunded ==
  /\ [](request_count.month = admitted)
  /\ [][(\E t \in Tasks : InFlight(t) /\ ~InFlight(t)') =>
         UNCHANGED <<request_count, elapsed, admitted, in_window>>]_vars

\* an admitted request met a transport error and its invocation has returned:
\* the unit it took is still counted, for the second and for the month
C26_Witness ==
  \E t \in Tasks :
    /\ pc[t] = "done"
    /\ Len(log[t]) > 0
    /\ LastEvent(log[t]).ev = "response"
    /\ LastEvent(log[t]).o.v.kind = "send_error"
    /\ admitted = 1
    /\ request_count = [second |-> 1, month |-> 1]

\* the stages of the POI-detail path: get_pois_data, get_descriptions_data
PoiStages == {"pois", "descriptions"}

\* C27: a local search never enters get_pois_data or get_descriptions_data:
\* no gate check and no request of those stages is made, the text
\* "No local results found" is never returned, and the invocation makes at
\* most two gate checks and sends at most two upstream requests.
C27_PoiPathUnreachable ==
  \A t \in Tasks :
    tool[t] = "local" =>
      /\ stage[t] \notin PoiStages
      /\ \A i \in 1..Len(log[t]) : log[t][i].stage \notin PoiStages
      /\ out[t] # <<"No local results found">>
      /\ Count(log[t], "check") <= 2
      /\ Count(log[t], "send") <= 2

\* the one location entry that came back had nothing but its id: the local
\* search returned its ID line after a single request
C27_Witness ==
  \E t \in Tasks :
    /\ tool[t] = "local"
    /\ pc[t] = "done"
    /\ out[t] = <<"ID: ", "id1">>
    /\ Count(log[t], "send") = 1
    /\ LastEvent(log[t]).stage = "locations"

\* C28: a rejected check_rate_limit call leaves month_count unchanged; it
\* changes second_count or the window start only by the window reset, hence
\* only when more than one second has passed since the window start, and then
\* the rejection is by the monthly limit; a call rejected with the per-second
\* limit reached leaves the counters and the window start unchanged.
C28_RejectedCallFrame ==
  [][(DirectCall /\ ~result'.ok) =>
       /\ request_count'.month = request_count.month
       /\ (<<request_count, elapsed>>' # <<request_count, elapsed>> =>
             /\ elapsed > OneSecond
             /\ request_count.month >= RATE_LIMIT_PER_MONTH
             /\ request_count' = [request_count EXCEPT !.second = 0]
             /\ elapsed' = 0)
       /\ (request_count'.second >= RATE_LIMIT_PER_SECOND =>
             UNCHANGED <<request_count, elapsed>>)]_vars

\* a call came more than a second into a window whose admission had filled
\* it, found the month used up and was rejected: it has reset the window
C28_Witness ==
  /\ result = Err(RateLimitError)
  /\ request_count = [second |-> 0, month |-> RATE_LIMIT_PER_MONTH]
  /\ elapsed = 0
  /\ in_window = 0
  /\ since_admit > OneSecond
====
